---------------------------- MODULE Spec2Model ----------------------------
(***************************************************************************)
(* The CAPTCHA challenge subsystem of the Notely backend:                  *)
(*   utils/captcha.ts   (captchaStore, sweep timer, generateCaptcha,       *)
(*                       verifyCaptcha, generateRandomText)                *)
(*   routes/captcha.ts  (GET /generate, POST /verify)                      *)
(*   routes/auth.ts     (POST /register, POST /login)                      *)
(* Time is counted in minutes.  Strings are sequences of one-character     *)
(* strings, so that String.prototype.toLowerCase is computed, not assumed. *)
(***************************************************************************)
EXTENDS Integers, Sequences, FiniteSets, TLC

(***************************************************************************)
(* Bounds of the exploration.                                              *)
(***************************************************************************)
MaxTime == 6
MaxGen == 2
RaceGen == 1
AuthGen == 1
GenWindow == 1
RandomScale == 72

(***************************************************************************)
(* Program constants.                                                      *)
(***************************************************************************)
TTL == 5
SweepInterval == 5
TextLength == 5

(***************************************************************************)
(* JavaScript values that arrive in a JSON request body.                   *)
(***************************************************************************)
Str(s) == [type |-> "string", chars |-> s]
Num(s) == [type |-> "number", chars |-> s]
Undefined == [type |-> "undefined", chars |-> <<>>]

Upper == <<"A","B","C","D","E","F","G","H","I","J","K","L","M",
           "N","O","P","Q","R","S","T","U","V","W","X","Y","Z">>
Lower == <<"a","b","c","d","e","f","g","h","i","j","k","l","m",
           "n","o","p","q","r","s","t","u","v","w","x","y","z">>
Digits == <<"0","1","2","3","4","5","6","7","8","9">>

\* const chars = 'ABCDEFGHIJKLMNOPQRSTUVWXYZ0123456789'
chars == Upper \o Digits

LowerChar(c) ==
    IF \E k \in 1..Len(Upper) : Upper[k] = c
    THEN Lower[CHOOSE k \in 1..Len(Upper) : Upper[k] = c]
    ELSE c

\* mutant: the comparison forgets to fold case
toLowerCase_Identity(s) == s

\* String.prototype.toLowerCase on a sequence of characters
toLowerCase(s) == [i \in 1..Len(s) |-> LowerChar(s[i])]

\* JavaScript truthiness of a body value: undefined, "" and 0 are falsy
\* mutant: every value passes the test
Truthy_Always(v) == TRUE

Truthy(v) ==
    CASE v.type = "undefined" -> FALSE
      [] v.type = "string" -> v.chars # <<>>
      [] v.type = "number" -> v.chars # <<"0">>
      [] OTHER -> TRUE

(***************************************************************************)
(* Outcomes of the random source explored by the model.  Each element of   *)
(* RandomDraws is the sequence of values Math.floor(Math.random() * 36)    *)
(* takes in one call of generateRandomText; RandomIds are the values of    *)
(* Math.random().toString(36).substring(2, 15).                            *)
(***************************************************************************)
RandomDraws == { <<0, 1, 29, 10, 35>>, <<0, 1, 29, 10, 34>> }
RandomIds == {"k3x9q", "p0z7m"}
Clients == {"c1", "c2"}
SoloClients == {"c1"}

\* mutant: the loop runs one time too few
generateRandomText_Short(length, draw) == [i \in 1..(length - 1) |-> chars[draw[i] + 1]]

generateRandomText(length, draw) == [i \in 1..length |-> chars[draw[i] + 1]]

\* Buffer.from(svg).toString('base64') and its inverse atob: an encoding that
\* loses nothing, kept as a wrapper around what it encodes
Base64(svg) == [mime |-> "data:image/svg+xml;base64", data |-> svg]
atob(image) == image.data

\* The SVG document: five noise lines, then one <text> element per character
\* of the answer, in order, at x = 20 + 25 i, holding the character itself.
\* The random y, rotation and colours are attributes that do not change
\* which character an element holds.
createSimpleCaptchaImage(text) ==
    Base64([noiseLines |-> 5,
            chars |-> [i \in 1..Len(text) |->
                         [tag |-> "text", x |-> 20 + (i - 1) * 25, char |-> text[i]]]])

(***************************************************************************)
(* The index generateRandomText draws, computed as the code computes it:   *)
(* Math.floor(Math.random() * chars.length), with Math.random() a multiple *)
(* r / RandomScale of the resolution, 0 <= r < RandomScale.  RandomValues  *)
(* are the values of r that give the first and last letter and the first   *)
(* and last digit.                                                         *)
(***************************************************************************)
RandomValues == {0, (25 * RandomScale) \div 36 + 1, (26 * RandomScale) \div 36, RandomScale - 1}
MathFloorRandom(r, n) == (r * n) \div RandomScale
RandomIndexes(rs) == [i \in 1..Len(rs) |-> MathFloorRandom(rs[i], Len(chars))]
SoloIds == {"k3x9q"}

(***************************************************************************)
(* Request bodies the clients send to POST /api/captcha/verify.            *)
(***************************************************************************)
Texts == { generateRandomText(TextLength, d) : d \in RandomDraws }
SubmittedTexts ==
    { Str(<<"A","B","3","K","9">>), Str(<<"a","b","3","k","9">>),
      Str(<<"A","b","3","K","9">>), Str(<<"a","b","3","k","8">>),
      Str(<<"w","r","o","n","g">>), Num(<<"1","2","3">>), Undefined }
RequestBodies ==
    (RandomIds \X SubmittedTexts) \cup { <<"", Str(<<"A","B","3","K","9">>)>> }
RaceBodies ==
    RandomIds \X { Str(<<"A","B","3","K","9">>), Str(<<"a","b","3","k","9">>) }

(***************************************************************************)
(* Requests to POST /api/auth/register and POST /api/auth/login: the route,*)
(* whether the fields other than the captcha pass their validators, and    *)
(* captchaId and captchaText.  The file holds two routers that define both *)
(* routes: the first (lines 15-185) asks for a captcha, the second (lines  *)
(* 263-391) does not.                                                      *)
(***************************************************************************)
GatedRoutes == {"register", "login"}
UngatedRoutes == {"register-2", "login-2"}
AuthRoutes == GatedRoutes \cup UngatedRoutes
AuthBodies ==
    ({"valid"} \X RandomIds \X
        { Str(<<"A","B","3","K","9">>), Str(<<"a","b","3","k","8">>),
          Num(<<"1","2","3">>), Undefined })
    \cup { <<"invalid", "k3x9q", Str(<<"A","B","3","K","9">>)>>,
           <<"valid", "", Str(<<"A","B","3","K","9">>)>> }

\* express-validator notEmpty(): the value, as a string, is not ""
NotEmpty(v) == v.type # "undefined" /\ v.chars # <<>>

VARIABLES captchaStore, now, nextSweep, calls, generated, accepts, issued

vars == <<captchaStore, now, nextSweep, calls, generated, accepts, issued>>

\* a client that has sent nothing yet
Idle ==
    [pc |-> "idle", route |-> "", form |-> "", id |-> "", text |-> Undefined,
     ret |-> "none", status |-> 0, captchaData |-> <<>>, log |-> "", flow |-> <<>>]

(***************************************************************************)
(* Map operations of the store.                                            *)
(***************************************************************************)
MapHas(m, k) == k \in DOMAIN m
\* mutant: set does not replace the value of a key that is present
MapSet_InsertOnly(m, k, v) ==
    IF MapHas(m, k) THEN m ELSE [x \in (DOMAIN m) \cup {k} |-> IF x = k THEN v ELSE m[x]]

MapSet(m, k, v) == [x \in (DOMAIN m) \cup {k} |-> IF x = k THEN v ELSE m[x]]
\* mutant: delete empties the map
MapDelete_Clear(m, k) == << >>

MapDelete(m, k) == [x \in (DOMAIN m) \ {k} |-> m[x]]

\* captchaStore.get(id): the record in a one-element sequence, <<>> for undefined
MapGet(m, k) == IF MapHas(m, k) THEN <<m[k]>> ELSE <<>>

\* mutant: a matched challenge is not deleted
verifyCaptcha_KeepsOnMatch(store, id, userInput, t) ==
    LET captchaData == MapGet(store, id)
    IN IF captchaData = <<>>
       THEN [ret |-> "false", store |-> store, captchaData |-> captchaData,
             log |-> "Captcha not found or expired"]
       ELSE IF captchaData[1].expiresAt < t
       THEN [ret |-> "false", store |-> MapDelete(store, id),
             captchaData |-> captchaData, log |-> "Captcha expired"]
       ELSE IF userInput.type # "string"
       THEN [ret |-> "TypeError", store |-> store, captchaData |-> captchaData,
             log |-> "Verifying captcha"]
       ELSE IF toLowerCase(captchaData[1].text) = toLowerCase(userInput.chars)
       THEN [ret |-> "true", store |-> store,
             captchaData |-> captchaData, log |-> "Captcha validation"]
       ELSE [ret |-> "false", store |-> store, captchaData |-> captchaData,
             log |-> "Captcha validation"]

\* mutant: the expiry check is missing
verifyCaptcha_NoExpiryCheck(store, id, userInput, t) ==
    LET captchaData == MapGet(store, id)
    IN IF captchaData = <<>>
       THEN [ret |-> "false", store |-> store, captchaData |-> captchaData,
             log |-> "Captcha not found or expired"]
       ELSE IF FALSE
       THEN [ret |-> "false", store |-> MapDelete(store, id),
             captchaData |-> captchaData, log |-> "Captcha expired"]
       ELSE IF userInput.type # "string"
       THEN [ret |-> "TypeError", store |-> store, captchaData |-> captchaData,
             log |-> "Verifying captcha"]
       ELSE IF toLowerCase(captchaData[1].text) = toLowerCase(userInput.chars)
       THEN [ret |-> "true", store |-> MapDelete(store, id),
             captchaData |-> captchaData, log |-> "Captcha validation"]
       ELSE [ret |-> "false", store |-> store, captchaData |-> captchaData,
             log |-> "Captcha validation"]

\* mutant: an expired challenge is rejected but left in the store
verifyCaptcha_ExpiredKept(store, id, userInput, t) ==
    LET captchaData == MapGet(store, id)
    IN IF captchaData = <<>>
       THEN [ret |-> "false", store |-> store, captchaData |-> captchaData,
             log |-> "Captcha not found or expired"]
       ELSE IF captchaData[1].expiresAt < t
       THEN [ret |-> "false", store |-> store,
             captchaData |-> captchaData, log |-> "Captcha expired"]
       ELSE IF userInput.type # "string"
       THEN [ret |-> "TypeError", store |-> store, captchaData |-> captchaData,
             log |-> "Verifying captcha"]
       ELSE IF toLowerCase(captchaData[1].text) = toLowerCase(userInput.chars)
       THEN [ret |-> "true", store |-> MapDelete(store, id),
             captchaData |-> captchaData, log |-> "Captcha validation"]
       ELSE [ret |-> "false", store |-> store, captchaData |-> captchaData,
             log |-> "Captcha validation"]

\* mutant: only the submitted text is lower-cased
verifyCaptcha_StoredNotFolded(store, id, userInput, t) ==
    LET captchaData == MapGet(store, id)
    IN IF captchaData = <<>>
       THEN [ret |-> "false", store |-> store, captchaData |-> captchaData,
             log |-> "Captcha not found or expired"]
       ELSE IF captchaData[1].expiresAt < t
       THEN [ret |-> "false", store |-> MapDelete(store, id),
             captchaData |-> captchaData, log |-> "Captcha expired"]
       ELSE IF userInput.type # "string"
       THEN [ret |-> "TypeError", store |-> store, captchaData |-> captchaData,
             log |-> "Verifying captcha"]
       ELSE IF captchaData[1].text = toLowerCase(userInput.chars)
       THEN [ret |-> "true", store |-> MapDelete(store, id),
             captchaData |-> captchaData, log |-> "Captcha validation"]
       ELSE [ret |-> "false", store |-> store, captchaData |-> captchaData,
             log |-> "Captcha validation"]

\* mutant: the challenge is deleted whatever the comparison says
verifyCaptcha_DeletesOnMismatch(store, id, userInput, t) ==
    LET captchaData == MapGet(store, id)
    IN IF captchaData = <<>>
       THEN [ret |-> "false", store |-> store, captchaData |-> captchaData,
             log |-> "Captcha not found or expired"]
       ELSE IF captchaData[1].expiresAt < t
       THEN [ret |-> "false", store |-> MapDelete(store, id),
             captchaData |-> captchaData, log |-> "Captcha expired"]
       ELSE IF userInput.type # "string"
       THEN [ret |-> "TypeError", store |-> store, captchaData |-> captchaData,
             log |-> "Verifying captcha"]
       ELSE IF toLowerCase(captchaData[1].text) = toLowerCase(userInput.chars)
       THEN [ret |-> "true", store |-> MapDelete(store, id),
             captchaData |-> captchaData, log |-> "Captcha validation"]
       ELSE [ret |-> "false", store |-> MapDelete(store, id),
             captchaData |-> captchaData, log |-> "Captcha validation"]

\* mutant: a record is taken as expired at the instant of its expiresAt
verifyCaptcha_ExpiredAtBoundary(store, id, userInput, t) ==
    LET captchaData == MapGet(store, id)
    IN IF captchaData = <<>>
       THEN [ret |-> "false", store |-> store, captchaData |-> captchaData,
             log |-> "Captcha not found or expired"]
       ELSE IF captchaData[1].expiresAt <= t
       THEN [ret |-> "false", store |-> MapDelete(store, id),
             captchaData |-> captchaData, log |-> "Captcha expired"]
       ELSE IF userInput.type # "string"
       THEN [ret |-> "TypeError", store |-> store, captchaData |-> captchaData,
             log |-> "Verifying captcha"]
       ELSE IF toLowerCase(captchaData[1].text) = toLowerCase(userInput.chars)
       THEN [ret |-> "true", store |-> MapDelete(store, id),
             captchaData |-> captchaData, log |-> "Captcha validation"]
       ELSE [ret |-> "false", store |-> store, captchaData |-> captchaData,
             log |-> "Captcha validation"]

\* mutant: a wrong attempt renews the expiry of the record
verifyCaptcha_RefreshesOnMismatch(store, id, userInput, t) ==
    LET captchaData == MapGet(store, id)
    IN IF captchaData = <<>>
       THEN [ret |-> "false", store |-> store, captchaData |-> captchaData,
             log |-> "Captcha not found or expired"]
       ELSE IF captchaData[1].expiresAt < t
       THEN [ret |-> "false", store |-> MapDelete(store, id),
             captchaData |-> captchaData, log |-> "Captcha expired"]
       ELSE IF userInput.type # "string"
       THEN [ret |-> "TypeError", store |-> store, captchaData |-> captchaData,
             log |-> "Verifying captcha"]
       ELSE IF toLowerCase(captchaData[1].text) = toLowerCase(userInput.chars)
       THEN [ret |-> "true", store |-> MapDelete(store, id),
             captchaData |-> captchaData, log |-> "Captcha validation"]
       ELSE [ret |-> "false",
             store |-> [store EXCEPT ![id].expiresAt = t + TTL + 1],
             captchaData |-> captchaData, log |-> "Captcha validation"]

\* mutant: the lookup result is used without the undefined check
verifyCaptcha_NoAbsentCheck(store, id, userInput, t) ==
    LET captchaData == MapGet(store, id)
    IN IF captchaData = <<>>
       THEN [ret |-> "TypeError", store |-> store, captchaData |-> captchaData,
             log |-> "Verifying captcha"]
       ELSE IF captchaData[1].expiresAt < t
       THEN [ret |-> "false", store |-> MapDelete(store, id),
             captchaData |-> captchaData, log |-> "Captcha expired"]
       ELSE IF userInput.type # "string"
       THEN [ret |-> "TypeError", store |-> store, captchaData |-> captchaData,
             log |-> "Verifying captcha"]
       ELSE IF toLowerCase(captchaData[1].text) = toLowerCase(userInput.chars)
       THEN [ret |-> "true", store |-> MapDelete(store, id),
             captchaData |-> captchaData, log |-> "Captcha validation"]
       ELSE [ret |-> "false", store |-> store, captchaData |-> captchaData,
             log |-> "Captcha validation"]

(***************************************************************************)
(* verifyCaptcha(id, userInput) at time t: the value returned ("TypeError" *)
(* when userInput.toLowerCase is not a function), the store afterwards,    *)
(* the record looked up and the last line logged.                          *)
(***************************************************************************)
verifyCaptcha(store, id, userInput, t) ==
    LET captchaData == MapGet(store, id)
    IN IF captchaData = <<>>
       THEN [ret |-> "false", store |-> store, captchaData |-> captchaData,
             log |-> "Captcha not found or expired"]
       ELSE IF captchaData[1].expiresAt < t
       THEN [ret |-> "false", store |-> MapDelete(store, id),
             captchaData |-> captchaData, log |-> "Captcha expired"]
       ELSE IF userInput.type # "string"
       THEN [ret |-> "TypeError", store |-> store, captchaData |-> captchaData,
             log |-> "Verifying captcha"]
       ELSE IF toLowerCase(captchaData[1].text) = toLowerCase(userInput.chars)
       THEN [ret |-> "true", store |-> MapDelete(store, id),
             captchaData |-> captchaData, log |-> "Captcha validation"]
       ELSE [ret |-> "false", store |-> store, captchaData |-> captchaData,
             log |-> "Captcha validation"]

\* mutant: the sweep deletes every entry
sweep_DeletesAll(store, t) == << >>

\* mutant: the loop stops after the first expired entry it deletes
sweep_FirstOnly(store, t) ==
    LET expired == { k \in DOMAIN store : store[k].expiresAt < t }
    IN IF expired = {} THEN store
       ELSE [x \in (DOMAIN store) \ {CHOOSE k \in expired : TRUE} |-> store[x]]

\* the setInterval callback: delete every entry with expiresAt < now
sweep(store, t) ==
    [x \in { k \in DOMAIN store : ~(store[k].expiresAt < t) } |-> store[x]]

(***************************************************************************)
(* expiresAt.setMinutes(expiresAt.getMinutes() + minutes): the minutes are *)
(* added to the LOCAL time of day, which is then converted back.  shift is *)
(* the jump of the local clock that the conversion meets: 0 in a zone      *)
(* whose offset does not change around t, plus or minus an hour when the   *)
(* local result falls on the other side of a daylight-saving change or in  *)
(* the repeated hour (which of the two depends on the engine).             *)
(***************************************************************************)
setMinutes(t, minutes, shift) == t + minutes + shift

\* the jumps met by local-time arithmetic: none, or an hour either way
LocalClockShifts == {0, 60, 0 - 60}

\* mutant: the record stored does not carry its identifier
generateCaptcha_IdNotRecorded(store, id, draw, t, shift) ==
    LET text == generateRandomText(TextLength, draw)
        image == createSimpleCaptchaImage(text)
    IN [store |-> MapSet(store, id, [id |-> "", text |-> text, image |-> image,
                                     expiresAt |-> setMinutes(t, TTL, shift)]),
        ret |-> [id |-> id, image |-> image]]

\* generateCaptcha(): the store after captchaStore.set(id, {...}) and the
\* value returned
generateCaptcha(store, id, draw, t, shift) ==
    LET text == generateRandomText(TextLength, draw)
        image == createSimpleCaptchaImage(text)
    IN [store |-> MapSet(store, id, [id |-> id, text |-> text, image |-> image,
                                     expiresAt |-> setMinutes(t, TTL, shift)]),
        ret |-> [id |-> id, image |-> image]]

(***************************************************************************)
(* The state after module load: an empty store and the sweep timer armed.  *)
(* accepts is a history variable: for each identifier, the inputs for      *)
(* which verifyCaptcha returned true since the last generateCaptcha under  *)
(* that identifier.  generated counts the calls of generateCaptcha, and    *)
(* issued holds the body of the last response of GET /generate.            *)
(***************************************************************************)
Init ==
    /\ captchaStore = << >>
    /\ now = 0
    /\ nextSweep = SweepInterval
    /\ calls = [c \in Clients |-> Idle]
    /\ generated = 0
    /\ accepts = [i \in RandomIds |-> <<>>]
    /\ issued = <<>>

\* GET /api/captcha/generate
Generate(id, draw, shift) ==
    LET captcha == generateCaptcha(captchaStore, id, draw, now, shift)
    IN /\ captchaStore' = captcha.store
       /\ issued' = <<[id |-> captcha.ret.id, image |-> captcha.ret.image]>>
       /\ generated' = generated + 1
       /\ accepts' = [accepts EXCEPT ![id] = <<>>]
       /\ UNCHANGED <<now, nextSweep, calls>>

\* a client sends POST /api/captcha/verify with body {id, text}
Request(c, id, text) ==
    /\ calls[c].pc # "pending"
    /\ calls' = [calls EXCEPT ![c] =
                    [Idle EXCEPT !.pc = "pending", !.route = "verify",
                                 !.id = id, !.text = text]]
    /\ UNCHANGED <<captchaStore, now, nextSweep, generated, accepts, issued>>

\* the response of POST /api/captcha/verify to a call of verifyCaptcha
\* mutant: the exception is not caught apart and the answer is 200
VerifyStatus_AlwaysOk(ret) == 200

VerifyStatus(ret) == IF ret = "TypeError" THEN 500 ELSE 200

\* the handler of POST /api/captcha/verify, run to completion
HandleVerify(c) ==
    /\ calls[c].pc = "pending" /\ calls[c].route = "verify"
    /\ IF calls[c].id = "" \/ ~Truthy(calls[c].text)
       THEN /\ calls' = [calls EXCEPT ![c].pc = "done", ![c].status = 400]
            /\ UNCHANGED <<captchaStore, accepts>>
       ELSE LET r == verifyCaptcha(captchaStore, calls[c].id, calls[c].text, now)
            IN /\ captchaStore' = r.store
               /\ calls' = [calls EXCEPT ![c].pc = "done", ![c].ret = r.ret,
                               ![c].status = VerifyStatus(r.ret),
                               ![c].captchaData = r.captchaData,
                               ![c].log = r.log]
               /\ accepts' = IF r.ret = "true"
                             THEN [accepts EXCEPT ![calls[c].id] =
                                      Append(@, calls[c].text)]
                             ELSE accepts
    /\ UNCHANGED <<now, nextSweep, generated, issued>>

\* a client sends POST /api/auth/register or /login
AuthRequest(c, route, form, id, text) ==
    /\ calls[c].pc # "pending"
    /\ calls' = [calls EXCEPT ![c] =
                    [Idle EXCEPT !.pc = "pending", !.route = route, !.form = form,
                                 !.id = id, !.text = text]]
    /\ UNCHANGED <<captchaStore, now, nextSweep, generated, accepts, issued>>

\* validationResult(req) of the first router: every field validator passes
ValidationPasses(call) ==
    call.form = "valid" /\ call.id # "" /\ NotEmpty(call.text)

\* the part of register and login that both share: validation, then
\* verifyCaptcha, then the flow of the route, whose steps are onSuccess.flow
\* and whose answer is onSuccess.status.  An exception is caught and
\* answered 500.
GatedHandler(c, onSuccess) ==
    IF ~ValidationPasses(calls[c])
    THEN /\ calls' = [calls EXCEPT ![c].pc = "done", ![c].status = 400]
         /\ UNCHANGED <<captchaStore, accepts>>
    ELSE LET r == verifyCaptcha(captchaStore, calls[c].id, calls[c].text, now)
         IN /\ captchaStore' = r.store
            /\ calls' = [calls EXCEPT ![c].pc = "done", ![c].ret = r.ret,
                            ![c].captchaData = r.captchaData, ![c].log = r.log,
                            ![c].status = CASE r.ret = "TypeError" -> 500
                                            [] r.ret = "false" -> 400
                                            [] OTHER -> onSuccess.status,
                            ![c].flow = IF r.ret = "true" THEN onSuccess.flow
                                        ELSE <<>>]
            /\ accepts' = IF r.ret = "true"
                          THEN [accepts EXCEPT ![calls[c].id] =
                                   Append(@, calls[c].text)]
                          ELSE accepts

\* what the registration flow does, by what the database answers
RegisterFlow(db) ==
    CASE db = "taken" -> [status |-> 400, flow |-> <<"findFirst">>]
      [] db = "error" -> [status |-> 500, flow |-> <<"findFirst">>]
      [] OTHER -> [status |-> 201, flow |-> <<"findFirst", "hash", "create">>]

\* what the login flow does, by what the database answers
LoginFlow(db) ==
    CASE db = "nouser" -> [status |-> 401, flow |-> <<"findFirst">>]
      [] db = "error" -> [status |-> 500, flow |-> <<"findFirst">>]
      [] db = "badpassword" -> [status |-> 401, flow |-> <<"findFirst", "compare">>]
      [] OTHER -> [status |-> 200, flow |-> <<"findFirst", "compare", "sign">>]

RegisterOutcomes == {"taken", "free", "error"}
LoginOutcomes == {"nouser", "badpassword", "ok", "error"}

\* the handler of POST /register of the first router
HandleRegister(c, db) ==
    /\ calls[c].pc = "pending" /\ calls[c].route = "register"
    /\ GatedHandler(c, RegisterFlow(db))
    /\ UNCHANGED <<now, nextSweep, generated, issued>>

\* the handler of POST /login of the first router
HandleLogin(c, db) ==
    /\ calls[c].pc = "pending" /\ calls[c].route = "login"
    /\ GatedHandler(c, LoginFlow(db))
    /\ UNCHANGED <<now, nextSweep, generated, issued>>

\* the handlers of the second router: validation, then the flow
UngatedHandler(c, onSuccess) ==
    /\ calls' = IF calls[c].form # "valid"
                THEN [calls EXCEPT ![c].pc = "done", ![c].status = 400]
                ELSE [calls EXCEPT ![c].pc = "done", ![c].status = onSuccess.status,
                                   ![c].flow = onSuccess.flow]
    /\ UNCHANGED <<captchaStore, now, nextSweep, generated, accepts, issued>>

HandleRegisterUngated(c, db) ==
    /\ calls[c].pc = "pending" /\ calls[c].route = "register-2"
    /\ UngatedHandler(c, RegisterFlow(db))

HandleLoginUngated(c, db) ==
    /\ calls[c].pc = "pending" /\ calls[c].route = "login-2"
    /\ UngatedHandler(c, LoginFlow(db))

\* the setInterval callback fires, no earlier than its due time
Sweep ==
    /\ now >= nextSweep
    /\ captchaStore' = sweep(captchaStore, now)
    /\ nextSweep' = now + SweepInterval
    /\ UNCHANGED <<now, calls, generated, accepts, issued>>

\* the wall clock advances
Tick ==
    /\ now < MaxTime
    /\ now' = now + 1
    /\ UNCHANGED <<captchaStore, nextSweep, calls, generated, accepts, issued>>

\* one client, every request body; the zone of the process has no change of
\* offset during the run
Next ==
    \/ generated < MaxGen /\ \E id \in RandomIds, draw \in RandomDraws : Generate(id, draw, 0)
    \/ \E c \in SoloClients, b \in RequestBodies : Request(c, b[1], b[2])
    \/ \E c \in SoloClients : HandleVerify(c)
    \/ Sweep
    \/ Tick

Spec == Init /\ [][Next]_vars

\* two clients whose requests are in flight at the same time
NextRace ==
    \/ generated < RaceGen /\ \E id \in RandomIds, draw \in RandomDraws : Generate(id, draw, 0)
    \/ \E c \in Clients, b \in RaceBodies : Request(c, b[1], b[2])
    \/ \E c \in Clients : HandleVerify(c)
    \/ Sweep
    \/ Tick

SpecRace == Init /\ [][NextRace]_vars

\* one client that registers, logs in and verifies
NextAuth ==
    \/ generated < AuthGen /\ \E id \in RandomIds, draw \in RandomDraws : Generate(id, draw, 0)
    \/ \E c \in SoloClients, route \in AuthRoutes, b \in AuthBodies :
          AuthRequest(c, route, b[1], b[2], b[3])
    \/ \E c \in SoloClients, b \in RaceBodies : Request(c, b[1], b[2])
    \/ \E c \in SoloClients, db \in RegisterOutcomes : HandleRegister(c, db)
    \/ \E c \in SoloClients, db \in LoginOutcomes : HandleLogin(c, db)
    \/ \E c \in SoloClients, db \in RegisterOutcomes : HandleRegisterUngated(c, db)
    \/ \E c \in SoloClients, db \in LoginOutcomes : HandleLoginUngated(c, db)
    \/ \E c \in SoloClients : HandleVerify(c)
    \/ Sweep
    \/ Tick

SpecAuth == Init /\ [][NextAuth]_vars

(***************************************************************************)
(* Answers: generateCaptcha is called over and over under one identifier,  *)
(* with the five values of Math.random() taken from RandomValues.          *)
(***************************************************************************)
NextText ==
    /\ generated < MaxGen
    /\ \E id \in SoloIds, rs \in [1..TextLength -> RandomValues] :
          Generate(id, RandomIndexes(rs), 0)

SpecText == Init /\ [][NextText]_vars

(***************************************************************************)
(* Abandoned challenges: challenges are generated during the first         *)
(* GenWindow minutes, in a zone whose local clock may jump, and no request *)
(* is ever sent.  The event loop is idle, so the timer callback runs in    *)
(* the minute it is due: the clock does not pass a due timer.  The run     *)
(* lasts until every such challenge has expired and been swept.            *)
(***************************************************************************)
SweepHorizon == GenWindow + TTL + 60 + SweepInterval

TickIdle ==
    /\ now < nextSweep
    /\ now < SweepHorizon
    /\ now' = now + 1
    /\ UNCHANGED <<captchaStore, nextSweep, calls, generated, accepts, issued>>

NextSweep ==
    \/ /\ generated < MaxGen
       /\ now <= GenWindow
       /\ \E id \in RandomIds, draw \in RandomDraws, shift \in LocalClockShifts :
             Generate(id, draw, shift)
    \/ Sweep
    \/ TickIdle

SpecSweep == Init /\ [][NextSweep]_vars /\ WF_vars(Sweep) /\ WF_vars(TickIdle)

(***************************************************************************)
(* Vocabulary of the properties.                                           *)
(***************************************************************************)
\* the handler of client c's request runs in this step
Handled(c) == calls[c].pc = "pending" /\ calls'[c].pc = "done"

\* the request of client c passes the gate of the route and reaches verifyCaptcha
Called(c) == calls[c].id # "" /\ Truthy(calls[c].text)

IsExpired(store, id, t) == MapHas(store, id) /\ store[id].expiresAt < t
IsLive(store, id, t) == MapHas(store, id) /\ ~(store[id].expiresAt < t)

\* s and t are the same text up to the case of their letters
EqualIgnoringCase(s, t) ==
    /\ Len(s) = Len(t)
    /\ \A i \in 1..Len(s) :
          \/ s[i] = t[i]
          \/ \E k \in 1..Len(Upper) : {s[i], t[i]} = {Upper[k], Lower[k]}

\* v is a string that answers the challenge stored under id
Answers(store, id, v) ==
    v.type = "string" /\ EqualIgnoringCase(v.chars, store[id].text)

(***************************************************************************)
(* C1  Single use.  A call of verifyCaptcha returns true only for a        *)
(* challenge that has not been accepted before and removes it; once a      *)
(* call has returned true for an identifier, every later call with that    *)
(* identifier returns false until generateCaptcha stores a new challenge   *)
(* under it; no generated challenge is accepted twice.                     *)
(***************************************************************************)
C1_SingleUse ==
    [][\A c \in Clients : Handled(c) /\ Called(c) =>
          /\ calls'[c].ret = "true" =>
                /\ accepts[calls[c].id] = <<>>
                /\ ~MapHas(captchaStore', calls[c].id)
          /\ accepts[calls[c].id] # <<>> => calls'[c].ret = "false"
          /\ \A i \in RandomIds : Len(accepts'[i]) <= 1]_vars

\* the accepted identifier and answer were replayed and rejected
C1_Witness ==
    \E c \in Clients :
       /\ calls[c].pc = "done" /\ calls[c].ret = "false"
       /\ accepts[calls[c].id] = <<calls[c].text>>
       /\ calls[c].text.chars = <<"A","B","3","K","9">>

(***************************************************************************)
(* C2  Two verify requests in flight at once for the same identifier,      *)
(* both carrying the answer of its live challenge: the one handled first   *)
(* returns true and removes the challenge, the other then returns false;   *)
(* they never both return true.                                            *)
(***************************************************************************)
C2_InFlight(c, d) ==
    /\ c # d
    /\ calls[c].pc = "pending" /\ calls[d].pc = "pending"
    /\ calls[c].id = calls[d].id
    /\ IsLive(captchaStore, calls[c].id, now)
    /\ Answers(captchaStore, calls[c].id, calls[c].text)
    /\ Answers(captchaStore, calls[c].id, calls[d].text)

C2_ConcurrentVerify ==
    [][\A c, d \in Clients :
          /\ C2_InFlight(c, d) /\ Handled(c) =>
                /\ calls'[c].ret = "true"
                /\ calls'[d].pc = "pending"
                /\ verifyCaptcha(captchaStore', calls[d].id, calls[d].text, now).ret
                      = "false"
          /\ ( /\ c # d /\ Handled(d)
               /\ calls[c].pc = "done" /\ calls[c].ret = "true"
               /\ calls[c].id = calls[d].id
               /\ accepts[calls[c].id] = <<calls[c].text>> )
             => calls'[d].ret = "false"
          /\ \A i \in RandomIds : Len(accepts'[i]) <= 1]_vars

\* both requests carried the answer: one was accepted, the other found nothing
C2_Witness ==
    \E c, d \in Clients :
       /\ c # d
       /\ calls[c].pc = "done" /\ calls[c].ret = "true"
       /\ calls[d].pc = "done" /\ calls[d].ret = "false"
       /\ calls[d].log = "Captcha not found or expired"
       /\ calls[c].id = calls[d].id
       /\ accepts[calls[c].id] = <<calls[c].text>>
       /\ calls[c].text # calls[d].text
       /\ EqualIgnoringCase(calls[c].text.chars, calls[d].text.chars)

(***************************************************************************)
(* C3  A challenge whose expiresAt is before the current time is never     *)
(* accepted: whatever is submitted, verifyCaptcha returns false, also      *)
(* while the record is still in the store.                                 *)
(***************************************************************************)
C3_ExpiredNeverAccepted ==
    [][\A c \in Clients :
          Handled(c) /\ IsExpired(captchaStore, calls[c].id, now) =>
             /\ calls'[c].ret # "true"
             /\ Called(c) => calls'[c].ret = "false"]_vars

\* the correct answer was submitted for a record that was still stored, and refused
C3_Witness ==
    \E c \in Clients :
       /\ calls[c].pc = "done" /\ calls[c].ret = "false"
       /\ calls[c].log = "Captcha expired"
       /\ calls[c].captchaData # <<>>
       /\ calls[c].text = Str(calls[c].captchaData[1].text)

(***************************************************************************)
(* C4  Lazy expiry cleanup: a call that finds the record of its identifier *)
(* expired deletes it and returns false whatever the text, and any call    *)
(* with that identifier on the resulting store returns false as well.      *)
(***************************************************************************)
C4_LazyExpiry ==
    [][\A c \in Clients :
          Handled(c) /\ Called(c) /\ IsExpired(captchaStore, calls[c].id, now) =>
             /\ calls'[c].ret = "false"
             /\ ~MapHas(captchaStore', calls[c].id)
             /\ \A i \in DOMAIN captchaStore' : captchaStore'[i] = captchaStore[i]
             /\ \A v \in SubmittedTexts \cup {Str(captchaStore[calls[c].id].text)} :
                   verifyCaptcha(captchaStore', calls[c].id, v, now).ret = "false"]_vars

\* a text that does not match met an expired record, which is gone from the store
C4_Witness ==
    \E c \in Clients :
       /\ calls[c].pc = "done" /\ calls[c].ret = "false"
       /\ calls[c].log = "Captcha expired"
       /\ calls[c].captchaData # <<>>
       /\ ~Answers([x \in {calls[c].id} |-> calls[c].captchaData[1]],
                   calls[c].id, calls[c].text)
       /\ ~MapHas(captchaStore, calls[c].id)

(***************************************************************************)
(* C5  Round trip: for a stored, unexpired challenge that has not been     *)
(* accepted yet, verifyCaptcha returns true for the answer in any casing,  *)
(* and a second call with the same identifier returns false.               *)
(***************************************************************************)
C5_RoundTrip ==
    [][\A c \in Clients : Handled(c) /\ Called(c) =>
          /\ ( /\ IsLive(captchaStore, calls[c].id, now)
               /\ Answers(captchaStore, calls[c].id, calls[c].text) )
             => /\ calls'[c].ret = "true"
                /\ \A v \in SubmittedTexts :
                      verifyCaptcha(captchaStore', calls[c].id, v, now).ret # "true"
          /\ accepts[calls[c].id] # <<>> => calls'[c].ret = "false"]_vars

\* the answer was accepted in lower case
C5_Witness ==
    \E c \in Clients :
       /\ calls[c].pc = "done" /\ calls[c].ret = "true"
       /\ calls[c].captchaData # <<>>
       /\ calls[c].captchaData[1].text = <<"A","B","3","K","9">>
       /\ calls[c].text = Str(<<"a","b","3","k","9">>)
       /\ ~MapHas(captchaStore, calls[c].id)

(***************************************************************************)
(* C6  For a live challenge and a submitted string, verifyCaptcha returns  *)
(* true exactly when the string equals the stored answer up to case, and   *)
(* false for every other string.                                           *)
(***************************************************************************)
C6_CaseInsensitiveMatch ==
    [][\A c \in Clients :
          ( /\ Handled(c) /\ Called(c)
            /\ IsLive(captchaStore, calls[c].id, now)
            /\ calls[c].text.type = "string" )
          => /\ calls'[c].ret \in {"true", "false"}
             /\ calls'[c].ret = "true" <=>
                   EqualIgnoringCase(calls[c].text.chars,
                                     captchaStore[calls[c].id].text)]_vars

\* a mixed-case rendering of the answer was accepted
C6_Witness ==
    \E c \in Clients :
       /\ calls[c].pc = "done" /\ calls[c].ret = "true"
       /\ calls[c].text = Str(<<"A","b","3","K","9">>)
       /\ calls[c].captchaData # <<>>
       /\ calls[c].captchaData[1].text = <<"A","B","3","K","9">>

(***************************************************************************)
(* C7  Wrong answer retained: a mismatching string on a live challenge     *)
(* returns false and leaves the store as it was, so that the correct       *)
(* answer is still accepted afterwards.                                    *)
(***************************************************************************)
C7_WrongAnswerRetained ==
    [][\A c \in Clients :
          ( /\ Handled(c) /\ Called(c)
            /\ IsLive(captchaStore, calls[c].id, now)
            /\ calls[c].text.type = "string"
            /\ ~Answers(captchaStore, calls[c].id, calls[c].text) )
          => /\ calls'[c].ret = "false"
             /\ captchaStore' = captchaStore
             /\ verifyCaptcha(captchaStore', calls[c].id,
                              Str(captchaStore[calls[c].id].text), now).ret
                   = "true"]_vars

\* a wrong text was refused and the record it was compared with is still stored
C7_Witness ==
    \E c \in Clients :
       /\ calls[c].pc = "done" /\ calls[c].ret = "false"
       /\ calls[c].log = "Captcha validation"
       /\ calls[c].text = Str(<<"w","r","o","n","g">>)
       /\ MapGet(captchaStore, calls[c].id) = calls[c].captchaData

(***************************************************************************)
(* C8  verifyCaptcha with an identifier that is not in the store returns   *)
(* false and leaves the store unchanged.                                   *)
(***************************************************************************)
C8_UnknownIdentifier ==
    [][\A c \in Clients :
          Handled(c) /\ Called(c) /\ ~MapHas(captchaStore, calls[c].id) =>
             /\ calls'[c].ret = "false"
             /\ captchaStore' = captchaStore]_vars

\* a request for an identifier that is not stored was answered false while
\* another challenge was in the store
C8_Witness ==
    \E c \in Clients :
       /\ calls[c].pc = "done" /\ calls[c].ret = "false"
       /\ calls[c].captchaData = <<>>
       /\ calls[c].log = "Captcha not found or expired"
       /\ accepts[calls[c].id] = <<>>
       /\ DOMAIN captchaStore # {}

(***************************************************************************)
(* C9  verifyCaptcha is total: every call that passes the gate of the      *)
(* route returns a boolean and raises nothing.                             *)
(***************************************************************************)
C9_VerifyTotal ==
    \A c \in Clients :
       calls[c].pc = "done" /\ calls[c].status # 400 =>
          calls[c].ret \in {"true", "false"}

(***************************************************************************)
(* C10 Enumeration resistance: for one submitted value, the response of    *)
(* POST /verify is the same for every identifier for which the value is    *)
(* not accepted, whether the identifier is absent, expired or live.        *)
(***************************************************************************)
C10_EnumerationResistance ==
    \A v \in SubmittedTexts : \A i, j \in RandomIds :
       LET ri == verifyCaptcha(captchaStore, i, v, now).ret
           rj == verifyCaptcha(captchaStore, j, v, now).ret
       IN Truthy(v) /\ ri # "true" /\ rj # "true" =>
             ri = rj /\ VerifyStatus(ri) = VerifyStatus(rj)

\* what a program reads off the payload: the characters of the <text>
\* elements of the decoded SVG document, in document order
TextNodes(image) == [i \in 1..Len(atob(image).chars) |-> atob(image).chars[i].char]

(***************************************************************************)
(* C11 The response of GET /generate has the fields id and image only, and *)
(* what it holds does not give the caller the text of the answer stored    *)
(* for that identifier.                                                    *)
(***************************************************************************)
C11_AnswerNotReturned ==
    \A k \in 1..Len(issued) :
       /\ DOMAIN issued[k] = {"id", "image"}
       /\ ( /\ MapHas(captchaStore, issued[k].id)
            /\ captchaStore[issued[k].id].image = issued[k].image )
          => TextNodes(issued[k].image) # captchaStore[issued[k].id].text

(***************************************************************************)
(* C12 Precondition gate: every register and login request that is well    *)
(* formed calls verifyCaptcha, and none of the flow of the route (user     *)
(* lookup, user creation, token) runs unless the call returned true; a     *)
(* false result is answered 400.                                           *)
(***************************************************************************)
C12_CaptchaGate ==
    \A c \in Clients :
       calls[c].pc = "done" /\ calls[c].route \in AuthRoutes =>
          /\ ValidationPasses(calls[c]) => calls[c].ret # "none"
          /\ calls[c].ret # "true" => calls[c].flow = <<>>
          /\ calls[c].ret = "false" => calls[c].status = 400

\* the setInterval callback runs in this step
SweepStep == nextSweep' # nextSweep

(***************************************************************************)
(* C13 A sweep at time now removes every record whose expiresAt is before  *)
(* now: after it no such record is in the store.                           *)
(***************************************************************************)
C13_SweepRemovesExpired ==
    [][SweepStep =>
          /\ \A id \in DOMAIN captchaStore :
                captchaStore[id].expiresAt < now => ~MapHas(captchaStore', id)
          /\ \A id \in DOMAIN captchaStore' :
                ~(captchaStore'[id].expiresAt < now)]_vars

\* challenges were generated, nobody ever sent a request, a sweep has run
\* and the store is empty
C13_Witness ==
    /\ generated > 1
    /\ \A c \in Clients : calls[c].pc = "idle"
    /\ nextSweep > SweepInterval
    /\ DOMAIN captchaStore = {}

(***************************************************************************)
(* C14.  If challenges are generated and none is ever verified, then once  *)
(* the TTL of all of them has elapsed and one further sweep interval has   *)
(* passed the store is empty: with every challenge generated by minute     *)
(* GenWindow, the store is empty from minute GenWindow + TTL +             *)
(* SweepInterval on.                                                       *)
(***************************************************************************)
C14_SweepBoundsMemory ==
    now > GenWindow + TTL + SweepInterval => DOMAIN captchaStore = {}

(***************************************************************************)
(* C15.  Every generate call succeeds and, on return, the store holds      *)
(* under the returned identifier a record whose expiresAt is the time of   *)
(* the call plus the TTL and whose image is the image returned.            *)
(***************************************************************************)
C15_GenerateStoresRecord ==
    [][generated' = generated + 1 =>
          /\ Len(issued') = 1
          /\ MapHas(captchaStore', issued'[1].id)
          /\ captchaStore'[issued'[1].id].expiresAt = now + TTL
          /\ captchaStore'[issued'[1].id].image = issued'[1].image]_vars

(***************************************************************************)
(* C16 as stated.  Every generate call returns an identifier different     *)
(* from that of every challenge live at that moment.                       *)
(***************************************************************************)
C16_IdentifierUniqueness ==
    [][generated' = generated + 1 =>
          ~IsLive(captchaStore, issued'[1].id, now)]_vars

(***************************************************************************)
(* C16 amended.  The store holds at most one challenge per identifier,     *)
(* each stored under its own identifier.  generateCaptcha does not look    *)
(* the drawn identifier up: a call that draws a stored identifier replaces *)
(* that challenge and leaves the others alone, so N calls yield at most N  *)
(* identifiers.                                                            *)
(***************************************************************************)
C16_KeyedByIdentifier ==
    [][/\ \A id \in DOMAIN captchaStore' : captchaStore'[id].id = id
       /\ Cardinality(DOMAIN captchaStore') <= generated'
       /\ generated' = generated + 1 =>
             /\ DOMAIN captchaStore' = DOMAIN captchaStore \cup {issued'[1].id}
             /\ \A id \in DOMAIN captchaStore \ {issued'[1].id} :
                   captchaStore'[id] = captchaStore[id]]_vars

\* two calls of generateCaptcha, no request and no sweep yet, and one record:
\* the second call drew the identifier of the first, which was still live
C16_Witness ==
    /\ generated = 2
    /\ now = 0
    /\ nextSweep = SweepInterval
    /\ \A c \in Clients : calls[c].pc = "idle"
    /\ Cardinality(DOMAIN captchaStore) = 1

(***************************************************************************)
(* C17 as stated.  While an identifier stays in the store its record never *)
(* changes: the only change any operation applies to an existing record is *)
(* deleting it.                                                            *)
(***************************************************************************)
C17_CreateReadDeleteOnly ==
    [][\A id \in DOMAIN captchaStore \cap DOMAIN captchaStore' :
          captchaStore'[id] = captchaStore[id]]_vars

(***************************************************************************)
(* C17 amended.  verifyCaptcha and the sweep change an existing record     *)
(* only by deleting it; the one other change is a generateCaptcha call     *)
(* that draws an identifier already stored, which replaces the record.     *)
(***************************************************************************)
C17_NoUpdateButReplace ==
    [][\A id \in DOMAIN captchaStore \cap DOMAIN captchaStore' :
          \/ captchaStore'[id] = captchaStore[id]
          \/ generated' = generated + 1 /\ issued'[1].id = id]_vars

\* both challenges are stored, a sweep has run, and the record a rejected
\* request read is still stored as it was read
C17_Witness ==
    /\ generated = 2
    /\ Cardinality(DOMAIN captchaStore) = 2
    /\ nextSweep > SweepInterval
    /\ \E c \in Clients :
          /\ calls[c].pc = "done" /\ calls[c].ret = "false"
          /\ calls[c].captchaData # <<>>
          /\ MapGet(captchaStore, calls[c].id) = calls[c].captchaData

(***************************************************************************)
(* C18.  A verify request whose identifier or text is missing is answered  *)
(* 400 by the route handler: verifyCaptcha is not called and the store is  *)
(* unchanged.                                                              *)
(***************************************************************************)
C18_MissingInputRejected ==
    [][\A c \in Clients :
          ( /\ Handled(c) /\ calls[c].route = "verify"
            /\ calls[c].id = "" \/ calls[c].text = Undefined )
          => /\ calls'[c].status = 400
             /\ calls'[c].ret = "none"
             /\ calls'[c].captchaData = <<>> /\ calls'[c].log = ""
             /\ captchaStore' = captchaStore
             /\ accepts' = accepts]_vars

\* a request without text for an identifier that is stored was answered 400
\* and the challenge is still stored
C18_Witness ==
    \E c \in Clients :
       /\ calls[c].pc = "done" /\ calls[c].status = 400
       /\ calls[c].text = Undefined /\ calls[c].ret = "none"
       /\ MapHas(captchaStore, calls[c].id)

\* the request of client c is for identifier id and carries its answer while
\* the challenge is live
VerifyMatches(c, id) ==
    /\ Handled(c) /\ Called(c) /\ calls[c].id = id
    /\ IsLive(captchaStore, id, now)
    /\ Answers(captchaStore, id, calls[c].text)

\* the request of client c is for identifier id, whose challenge has expired
VerifyFindsExpired(c, id) ==
    /\ Handled(c) /\ Called(c) /\ calls[c].id = id
    /\ IsExpired(captchaStore, id, now)

\* the record stored under id before the step is not stored after it
RecordLeaves(id) ==
    ~MapHas(captchaStore', id) \/ captchaStore'[id] # captchaStore[id]

(***************************************************************************)
(* C19 as stated.  A challenge record leaves the store only through a      *)
(* verify of its identifier that matches, a verify of its identifier that  *)
(* finds it expired, or the sweep finding it expired.                      *)
(***************************************************************************)
C19_ThreeRemovalEvents ==
    [][\A id \in DOMAIN captchaStore :
          RecordLeaves(id) =>
             \/ \E c \in Clients : VerifyMatches(c, id)
             \/ \E c \in Clients : VerifyFindsExpired(c, id)
             \/ SweepStep /\ IsExpired(captchaStore, id, now)]_vars

(***************************************************************************)
(* C19 amended.  A challenge record leaves the store only through those    *)
(* three events, after which its identifier is not stored, or through a    *)
(* generateCaptcha call that draws its identifier and stores the new       *)
(* challenge in its place.  A mismatching verify, a verify of another      *)
(* identifier and a sweep before its expiry never remove it.               *)
(***************************************************************************)
C19_FourRemovalEvents ==
    [][\A id \in DOMAIN captchaStore :
          RecordLeaves(id) =>
             \/ /\ ~MapHas(captchaStore', id)
                /\ \/ \E c \in Clients : VerifyMatches(c, id)
                   \/ \E c \in Clients : VerifyFindsExpired(c, id)
                   \/ SweepStep /\ IsExpired(captchaStore, id, now)
             \/ /\ generated' = generated + 1 /\ issued'[1].id = id
                /\ MapHas(captchaStore', id)]_vars

\* one of two challenges has left the store; the other was read by a request
\* with a wrong answer and outlived it and a sweep
C19_Witness ==
    /\ generated = 2
    /\ Cardinality(DOMAIN captchaStore) = 1
    /\ nextSweep > SweepInterval
    /\ \E c \in Clients :
          /\ calls[c].pc = "done" /\ calls[c].ret = "false"
          /\ calls[c].log = "Captcha validation"
          /\ MapGet(captchaStore, calls[c].id) = calls[c].captchaData

(***************************************************************************)
(* C20.  A sweep that is due while verify requests are pending is safe in  *)
(* whichever order the callbacks run.  For every pending request, calling  *)
(* verifyCaptcha before the sweep and after it returns the same value and  *)
(* leaves the same store; when the sweep removed the record first the call *)
(* returns false and leaves the store alone; deleting an identifier that   *)
(* is already deleted, by delete or by a second sweep, changes nothing and *)
(* raises nothing.                                                         *)
(***************************************************************************)
C20_SweepVerifyRace ==
    /\ \A id \in RandomIds :
          /\ MapDelete(MapDelete(captchaStore, id), id) = MapDelete(captchaStore, id)
          /\ sweep(MapDelete(captchaStore, id), now)
                = MapDelete(sweep(captchaStore, now), id)
    /\ sweep(sweep(captchaStore, now), now) = sweep(captchaStore, now)
    /\ \A c \in Clients :
          calls[c].pc = "pending" /\ Called(c) =>
             LET swept == sweep(captchaStore, now)
                 first == verifyCaptcha(captchaStore, calls[c].id, calls[c].text, now)
                 after == verifyCaptcha(swept, calls[c].id, calls[c].text, now)
             IN /\ after.ret = first.ret
                /\ after.store = sweep(first.store, now)
                /\ ~MapHas(swept, calls[c].id) =>
                      after.ret = "false" /\ after.store = swept

\* the sweep ran this minute and removed the expired challenge; of two
\* requests that carried its answer, one has been answered false because the
\* record was gone and the other is still pending
C20_Witness ==
    \E c, d \in Clients :
       /\ nextSweep = now + SweepInterval
       /\ generated > 0 /\ ~MapHas(captchaStore, issued[1].id)
       /\ accepts[issued[1].id] = <<>>
       /\ calls[c].pc = "done" /\ calls[c].id = issued[1].id
       /\ calls[c].ret = "false"
       /\ calls[c].log = "Captcha not found or expired"
       /\ calls[d].pc = "pending" /\ calls[d].id = issued[1].id

\* generateCaptcha runs in this step
GenerateStep == generated' = generated + 1

(***************************************************************************)
(* C21 When generateCaptcha draws an identifier that is already stored,    *)
(* the record under it is replaced by the new challenge and the store      *)
(* holds the same identifiers as before.  From then on verifyCaptcha for   *)
(* that identifier accepts the new answer until the new expiresAt has      *)
(* passed, and accepts the old answer only if it equals the new one.       *)
(***************************************************************************)
C21_PutOverwrites ==
    [][GenerateStep /\ MapHas(captchaStore, issued'[1].id) =>
          LET id == issued'[1].id
              old == captchaStore[id]
              record == captchaStore'[id]
          IN /\ DOMAIN captchaStore' = DOMAIN captchaStore
             /\ record.image = issued'[1].image
             /\ record.text = TextNodes(issued'[1].image)
             /\ record.expiresAt >= old.expiresAt
             /\ verifyCaptcha(captchaStore', id, Str(record.text), now).ret = "true"
             /\ verifyCaptcha(captchaStore', id, Str(record.text),
                              record.expiresAt + 1).ret = "false"
             /\ verifyCaptcha(captchaStore', id, Str(old.text), old.expiresAt).ret = "true"
                   <=> EqualIgnoringCase(old.text, record.text)]_vars

\* both calls of generateCaptcha drew the same identifier (nothing was
\* accepted, swept or expired, and one record is stored), and the answer
\* AB3K9 was refused against the record that is stored now
C21_Witness ==
    /\ generated = 2
    /\ now = 0
    /\ nextSweep = SweepInterval
    /\ \A i \in RandomIds : accepts[i] = <<>>
    /\ \E c \in Clients :
          /\ DOMAIN captchaStore = {calls[c].id}
          /\ calls[c].pc = "done" /\ calls[c].ret = "false"
          /\ calls[c].text = Str(<<"A","B","3","K","9">>)
          /\ calls[c].log = "Captcha validation"
          /\ MapGet(captchaStore, calls[c].id) = calls[c].captchaData

(***************************************************************************)
(* C22 Every answer in the store is a string of exactly 5 characters, each *)
(* one of the 36 characters A-Z and 0-9.                                   *)
(***************************************************************************)
C22_AnswerAlphabet ==
    /\ Len(chars) = 36
    /\ \A id \in DOMAIN captchaStore :
          /\ Len(captchaStore[id].text) = 5
          /\ \A i \in 1..Len(captchaStore[id].text) :
                \E k \in 1..Len(chars) : chars[k] = captchaStore[id].text[i]

\* the stored answer holds the first and the last letter and the first and
\* the last digit of the alphabet
C22_Witness ==
    \E id \in DOMAIN captchaStore :
       captchaStore[id].text = <<"A", "Z", "0", "9", "A">>

(***************************************************************************)
(* C23 The expiry test is strict in verifyCaptcha and in the sweep.  At    *)
(* the instant now = expiresAt a call with the answer returns true and a   *)
(* sweep leaves the record as it is; a call finds a record expired, and a  *)
(* sweep removes one, only when now is later than its expiresAt.           *)
(***************************************************************************)
C23_StrictExpiryBoundary ==
    [][/\ \A c \in Clients :
             Handled(c) /\ Called(c) /\ MapHas(captchaStore, calls[c].id) =>
                /\ ( /\ captchaStore[calls[c].id].expiresAt = now
                     /\ Answers(captchaStore, calls[c].id, calls[c].text) )
                   => calls'[c].ret = "true"
                /\ calls'[c].log = "Captcha expired"
                   <=> now > captchaStore[calls[c].id].expiresAt
       /\ SweepStep =>
             \A id \in DOMAIN captchaStore :
                /\ captchaStore[id].expiresAt = now =>
                      MapHas(captchaStore', id) /\ captchaStore'[id] = captchaStore[id]
                /\ ~MapHas(captchaStore', id) <=> now > captchaStore[id].expiresAt]_vars

\* at the instant of their expiresAt, one challenge was accepted and the
\* other is still stored after the sweep that ran at that instant
C23_Witness ==
    /\ nextSweep = now + SweepInterval
    /\ \E id \in DOMAIN captchaStore : captchaStore[id].expiresAt = now
    /\ \E c \in Clients :
          /\ calls[c].pc = "done" /\ calls[c].ret = "true"
          /\ calls[c].captchaData # <<>>
          /\ calls[c].captchaData[1].expiresAt = now

(***************************************************************************)
(* C24 A verify request changes at most the record stored under its        *)
(* identifier: whatever the outcome, every record stored under another     *)
(* identifier is left as it was and no identifier is added to the store.   *)
(***************************************************************************)
C24_VerifyFrame ==
    [][\A c \in Clients :
          Handled(c) =>
             /\ DOMAIN captchaStore' \subseteq DOMAIN captchaStore
             /\ \A other \in DOMAIN captchaStore \ {calls[c].id} :
                   /\ MapHas(captchaStore', other)
                   /\ captchaStore'[other] = captchaStore[other]
             /\ MapHas(captchaStore', calls[c].id) =>
                   captchaStore'[calls[c].id] = captchaStore[calls[c].id]]_vars

\* a request was accepted and its challenge deleted while the challenge of
\* the other identifier stayed in the store
C24_Witness ==
    \E c \in Clients :
       /\ calls[c].pc = "done" /\ calls[c].ret = "true"
       /\ accepts[calls[c].id] = <<calls[c].text>>
       /\ ~MapHas(captchaStore, calls[c].id)
       /\ DOMAIN captchaStore = RandomIds \ {calls[c].id}
       /\ \A i \in DOMAIN captchaStore : accepts[i] = <<>>

(***************************************************************************)
(* C25 A sweep removes only expired records: a record whose expiresAt is   *)
(* not before the time of the sweep is left as it is, and verifyCaptcha    *)
(* with its answer still returns true after the sweep.                     *)
(***************************************************************************)
C25_SweepKeepsUnexpired ==
    [][SweepStep =>
          /\ DOMAIN captchaStore' \subseteq DOMAIN captchaStore
          /\ \A id \in DOMAIN captchaStore :
                ~(captchaStore[id].expiresAt < now) =>
                   /\ MapHas(captchaStore', id)
                   /\ captchaStore'[id] = captchaStore[id]
                   /\ verifyCaptcha(captchaStore', id, Str(captchaStore[id].text),
                                    now).ret = "true"]_vars

\* a challenge generated before the sweep ran is still stored and unexpired
\* while the other one was removed
C25_Witness ==
    /\ generated = 2
    /\ nextSweep > SweepInterval
    /\ \A c \in Clients : calls[c].pc = "idle"
    /\ \E id \in DOMAIN captchaStore :
          /\ DOMAIN captchaStore = {id}
          /\ ~(captchaStore[id].expiresAt < now)
          /\ captchaStore[id].expiresAt < nextSweep

\* the flow of the route ran and refused the request on its own check:
\* 401 from login, 400 after the user lookup from register
FlowRefused(call) ==
    \/ call.status = 401
    \/ call.status = 400 /\ call.flow = <<"findFirst">>

(***************************************************************************)
(* C26 In login and registration the challenge is consumed before the      *)
(* checks of the flow: when a well-formed request carries the answer of a  *)
(* live challenge and the flow refuses it (401 from login, 400 for a taken *)
(* email or username from register), the challenge is gone afterwards, and *)
(* a request that carries an identifier and text accepted before is        *)
(* answered 400 without running the flow.                                  *)
(***************************************************************************)
C26_ConsumedBeforeFlow ==
    [][\A c \in Clients :
          Handled(c) /\ calls[c].route \in AuthRoutes /\ ValidationPasses(calls[c]) =>
             /\ ( /\ IsLive(captchaStore, calls[c].id, now)
                  /\ Answers(captchaStore, calls[c].id, calls[c].text)
                  /\ FlowRefused(calls'[c]) )
                => /\ ~MapHas(captchaStore', calls[c].id)
                   /\ accepts'[calls[c].id] = <<calls[c].text>>
             /\ ( /\ accepts[calls[c].id] # <<>>
                  /\ ~MapHas(captchaStore, calls[c].id) )
                => /\ calls'[c].status = 400
                   /\ calls'[c].ret = "false"
                   /\ calls'[c].flow = <<>>]_vars

(***************************************************************************)
(* C27 POST /api/captcha/verify consumes the challenge: when it answers    *)
(* valid: true the record is deleted, and a register or login request that *)
(* then carries the same identifier and text fails the captcha gate (400,  *)
(* the flow of the route does not run).                                    *)
(***************************************************************************)
C27_VerifyEndpointConsumes ==
    [][\A c \in Clients :
          /\ ( /\ Handled(c) /\ calls[c].route = "verify"
               /\ calls'[c].ret = "true" )
             => /\ ~MapHas(captchaStore', calls[c].id)
                /\ accepts'[calls[c].id] = <<calls[c].text>>
                /\ calls'[c].status = 200
          /\ ( /\ Handled(c) /\ calls[c].route \in AuthRoutes
               /\ ValidationPasses(calls[c])
               /\ accepts[calls[c].id] = <<calls[c].text>> )
             => /\ calls'[c].status = 400
                /\ calls'[c].flow = <<>>]_vars

(***************************************************************************)
(* C28 When the comparison of verifyCaptcha raises, the text being no      *)
(* string and the challenge live, POST /verify answers 500 and the record  *)
(* stays in the store unchanged: verifyCaptcha with the answer returns     *)
(* true on the resulting store at any time up to expiresAt.                *)
(***************************************************************************)
C28_RaiseKeepsChallenge ==
    [][\A c \in Clients :
          ( /\ Handled(c) /\ calls[c].route = "verify" /\ Called(c)
            /\ IsLive(captchaStore, calls[c].id, now)
            /\ calls[c].text.type # "string" )
          => /\ calls'[c].ret = "TypeError"
             /\ calls'[c].status = 500
             /\ captchaStore' = captchaStore
             /\ accepts' = accepts
             /\ \A t \in {now, captchaStore[calls[c].id].expiresAt} :
                   LET again == verifyCaptcha(captchaStore', calls[c].id,
                                              Str(captchaStore[calls[c].id].text), t)
                   IN again.ret = "true" /\ ~MapHas(again.store, calls[c].id)]_vars

\* the number 123 was sent for a live challenge, the answer was 500, and the
\* record read is in the store as it was
C28_Witness ==
    \E c \in Clients :
       /\ calls[c].pc = "done" /\ calls[c].status = 500
       /\ calls[c].ret = "TypeError"
       /\ calls[c].text = Num(<<"1","2","3">>)
       /\ calls[c].captchaData # <<>>
       /\ MapGet(captchaStore, calls[c].id) = calls[c].captchaData
       /\ ~(calls[c].captchaData[1].expiresAt < now)

(***************************************************************************)
(* C29 The clock never goes backwards, and in every reachable state every  *)
(* record in the store has expiresAt <= now + TTL: no operation gives a    *)
(* challenge more than the TTL to live.                                    *)
(***************************************************************************)
C29_LifetimeBound ==
    \A id \in DOMAIN captchaStore : captchaStore[id].expiresAt <= now + TTL

=============================================================================
